---- MODULE Spec2Model ----
(***************************************************************************)
(* Model of the resilience engine of src/src/retry_system.py:              *)
(* ExponentialBackoff, CircuitBreaker, HealthChecker and RetryManager.     *)
(*                                                                         *)
(* Time is counted in ticks of 0.1 s (the smallest delay the backoff       *)
(* calculator can return, retry_system.py:158).  datetime values are tick  *)
(* counts; NoTime stands for None.                                         *)
(*                                                                         *)
(* Exceptions are modelled by the name of their class.  The operation is a *)
(* function or method (the log lines 93, 358 and 364 read its __name__),   *)
(* and what it raises derives from Exception, which is what both           *)
(* `except Exception` handlers of the code (lines 109 and 427) catch.      *)
(*                                                                         *)
(* The specifications share the definitions:                               *)
(*   Spec         one caller driving RetryManager.execute_with_retry, one  *)
(*                invocation after the other, through the breaker if       *)
(*                enabled; SpecFair adds that operations and sleeps end;   *)
(*   SpecCB       several threads calling one CircuitBreaker.call          *)
(*                concurrently;                                            *)
(*   SpecHC       the HealthChecker with its background monitoring         *)
(*                threads; SpecHCFair adds that the threads keep running;  *)
(*   SpecBackoff  ExponentialBackoff.calculate_delay on its own;           *)
(*   SpecHistory  one thread filling both histories past their capacity;   *)
(*   SpecRace     two threads recording attempts in a full retry history;  *)
(*   SpecCleanup  a RetryManager whose health monitoring is set up and     *)
(*                cleaned up while it executes an operation;               *)
(*   SpecStatus   a RetryManager whose get_... methods are called while it *)
(*                executes an operation and monitors the service.          *)
(***************************************************************************)
EXTENDS Integers, Sequences, FiniteSets, TLC

VARIABLES
    \* ---- shared by Spec and SpecCB
    config,            \* RetryConfig, fixed at construction
    circuit_breaker,   \* CircuitBreaker fields, or NoBreaker (self.circuit_breaker = None)
    now,               \* the wall clock, in ticks
    ticks,             \* number of idle waits taken so far (bounds the run)
    \* ---- RetryManager.execute_with_retry (Spec)
    retry_history,     \* self.retry_history
    pc,                \* position of the caller: "idle", "attempt", "backoff", "done"
    attempt,           \* loop variable of line 361
    last_exception,    \* local of line 356
    failed_attempt,    \* the RetryAttempt built at line 404, pending during the sleep
    outcome,           \* how the invocation ended: [kind, error]
    func_calls,        \* outcomes of the operation's invocations in this invocation
    sleeps,            \* delays passed to time.sleep in this invocation
    entry,             \* snapshot at the start of the invocation: history length, breaker
    invocations,       \* number of execute_with_retry invocations started
    \* ---- concurrent CircuitBreaker.call (SpecCB)
    lock_owner,        \* holder of self.lock, or NoThread
    tpc,               \* per thread: "out", "in_func"
    current_time,      \* per thread: local of line 80, NoTime outside call
    tresult,           \* per thread: outcome of its latest call
    func_result,       \* per thread: outcome of the operation it invoked last
    cb_log,            \* finished breaker calls, in order: "ok", "fail", "rejected"
    in_trial,          \* operations invoked since the state last became HALF_OPEN
    \* ---- HealthChecker (SpecHC)
    health_checker,    \* the HealthChecker's fields
    hlock,             \* holder of HealthChecker.lock, or NoThread
    loops,             \* per monitoring thread: its position, the result of its
                       \* probe and the local `success` that line 280 returns
    caller,            \* position of the thread calling start/stop_monitoring
    probe_log,         \* recorded probe results, in recording order
    \* ---- ExponentialBackoff alone (SpecBackoff)
    returned_delay,    \* what calculate_delay returned last
    \* ---- threads recording attempts in one RetryManager (SpecHistory, SpecRace)
    recorded,          \* number of attempts appended to retry_history so far
    recorders,         \* per thread: its position in lines 424-425 and 469-472
    observed,          \* total_attempts of the latest get_retry_stats (line 479)
    \* ---- RetryManager.cleanup (SpecCleanup)
    has_health_checker,\* self.health_checker is not None (lines 331 and 345)
    cleanups,          \* number of calls of cleanup() so far
    \* ---- the read surfaces (SpecStatus)
    report             \* what the latest call of a get_... method returned

vars == << config, circuit_breaker, now, ticks, retry_history, pc, attempt,
           last_exception, failed_attempt, outcome, func_calls, sleeps, entry,
           invocations, lock_owner, tpc, current_time, tresult, func_result, cb_log,
           in_trial,
           health_checker, hlock, loops, caller, probe_log, returned_delay, recorded,
           recorders, observed, has_health_checker, cleanups, report >>

rmVars == << retry_history, pc, attempt, last_exception, failed_attempt, outcome,
             func_calls, sleeps, entry, invocations >>
cbVars == << lock_owner, tpc, current_time, tresult, func_result, cb_log, in_trial >>
hcVars == << health_checker, hlock, loops, caller, probe_log >>
xVars == << returned_delay, recorded, recorders, observed, has_health_checker,
           cleanups, report >>

-----------------------------------------------------------------------------
(* Bounds of the model *)

MaxAttempts == 3        \* config.max_attempts ranges over 0..MaxAttempts
MaxThreshold == 2       \* config.circuit_failure_threshold ranges over 1..MaxThreshold
MaxInvocations == 2     \* execute_with_retry invocations per behaviour
MaxTicks == 4           \* clock advances per behaviour of SpecCB
MaxCalls == 4           \* breaker calls per behaviour of SpecCB
MaxChecks == 4          \* recorded probes per behaviour of SpecHC
MaxLoops == 2           \* monitoring threads ever started in SpecHC
MaxOver == 3            \* entries recorded beyond the capacity of a history
MaxExponent == 4        \* calculate_delay is called with 0..MaxExponent in SpecBackoff
MaxLastN == 3           \* get_health_history is called with 0..MaxLastN
MaxCleanups == 2        \* calls of cleanup() in one behaviour

(* Units *)

TicksPerSecond == 10
SecondsPerDay == 86400

NoTime == -1
NoThread == "NoThread"
NoError == "None"

-----------------------------------------------------------------------------
(* Exception classes *)

\* what the wrapped operation may raise
FuncErrors == {"ConnectionError", "ValueError"}

\* isinstance(e, classes) as the except clause of line 394 evaluates it: every
\* class of the model is a subclass of Exception
IsInstance(e, classes) == e \in classes \/ "Exception" \in classes

-----------------------------------------------------------------------------
(* RetryConfig *)

\* the configurations of Spec: delays of 1 s, 2 s, 3 s, ... against a recovery
\* timeout of 3 s, so that a backoff sleep can be shorter or longer than it
Configs ==
    { c \in [ max_attempts : 0..MaxAttempts,
              base_delay : {TicksPerSecond},
              max_delay : {3 * TicksPerSecond},
              exponential_base : {2},
              jitter : {FALSE},
              circuit_breaker_enabled : BOOLEAN,
              circuit_failure_threshold : 1..MaxThreshold,
              circuit_recovery_timeout : {3},
              retry_on_exceptions : {{"ConnectionError"}, {"Exception"}} ] :
        ~c.circuit_breaker_enabled => c.circuit_failure_threshold = 1 }

-----------------------------------------------------------------------------
(* ExponentialBackoff *)

RECURSIVE Pow(_, _)
Pow(b, n) == IF n = 0 THEN 1 ELSE b * Pow(b, n - 1)

Min(a, b) == IF a <= b THEN a ELSE b
Max(a, b) == IF a >= b THEN a ELSE b

\* variant of CappedDelay: the exponent is one too high
CappedDelayNextPower(cfg, n) ==
    Min(cfg.base_delay * Pow(cfg.exponential_base, n + 1), cfg.max_delay)

\* variant of CappedDelay: the delay is not capped
CappedDelayUncapped(cfg, n) == cfg.base_delay * Pow(cfg.exponential_base, n)

\* delay before jitter: lines 147-150
CappedDelay(cfg, n) == Min(cfg.base_delay * Pow(cfg.exponential_base, n), cfg.max_delay)

\* draws of random.uniform(-jitter_range, jitter_range), lines 154-155: the two
\* ends of the range and its middle, to the tick
JitterValues(cfg, n) ==
    IF cfg.jitter
    THEN LET jitter_range == CappedDelay(cfg, n) \div 10
         IN  {0 - jitter_range, 0, jitter_range}
    ELSE {0}

\* variant of calculate_delay: no minimum of 100 ms
calculate_delay_unfloored(cfg, n, jitter_value) == CappedDelay(cfg, n) + jitter_value

\* calculate_delay(attempt), jitter_value being the random draw
calculate_delay(cfg, n, jitter_value) == Max(1, CappedDelay(cfg, n) + jitter_value)

-----------------------------------------------------------------------------
(* CircuitBreaker *)

NoBreaker == [state |-> "None", failure_count |-> 0, last_failure_time |-> NoTime]

NewBreaker == [state |-> "CLOSED", failure_count |-> 0, last_failure_time |-> NoTime]

\* (current_time - self.last_failure_time).seconds: the seconds field of a
\* timedelta, which excludes whole days
ElapsedSeconds(t, last) == ((t - last) \div TicksPerSecond) % SecondsPerDay

\* the condition of line 84
RecoveryElapsed(b, cfg, t) ==
    /\ b.last_failure_time # NoTime
    /\ ElapsedSeconds(t, b.last_failure_time) >= cfg.circuit_recovery_timeout

\* lines 83-89: the call is rejected with CircuitOpenException
Rejects(b, cfg, t) == b.state = "OPEN" /\ ~RecoveryElapsed(b, cfg, t)

\* variant of Admit: an OPEN breaker whose timeout has elapsed is closed at
\* once
AdmitClosing(b, cfg, t) ==
    IF b.state = "OPEN" /\ RecoveryElapsed(b, cfg, t)
    THEN [b EXCEPT !.state = "CLOSED"]
    ELSE b

\* variant of Admit: the trial starts with the count of failures cleared
AdmitResetsCount(b, cfg, t) ==
    IF b.state = "OPEN" /\ RecoveryElapsed(b, cfg, t)
    THEN [b EXCEPT !.state = "HALF_OPEN", !.failure_count = 0]
    ELSE b

\* lines 83-86: the breaker when the call is let through
Admit(b, cfg, t) ==
    IF b.state = "OPEN" /\ RecoveryElapsed(b, cfg, t)
    THEN [b EXCEPT !.state = "HALF_OPEN"]
    ELSE b

\* variant of OnSuccess: a success in CLOSED resets the count and keeps the
\* time of the last failure
OnSuccessKeepsTime(b) ==
    IF b.state = "HALF_OPEN"
    THEN [state |-> "CLOSED", failure_count |-> 0, last_failure_time |-> NoTime]
    ELSE [b EXCEPT !.failure_count = 0]

\* lines 97-105: the operation returned
OnSuccess(b) ==
    IF b.state = "HALF_OPEN"
    THEN [state |-> "CLOSED", failure_count |-> 0, last_failure_time |-> NoTime]
    ELSE IF b.failure_count > 0
         THEN [b EXCEPT !.failure_count = 0, !.last_failure_time = NoTime]
         ELSE b

\* variant of OnFailure: the breaker opens only above the threshold
OnFailureAbove(b, cfg, t) ==
    LET counted == [b EXCEPT !.failure_count = b.failure_count + 1,
                             !.last_failure_time = t]
    IN  IF counted.failure_count > cfg.circuit_failure_threshold
           /\ counted.state # "OPEN"
        THEN [counted EXCEPT !.state = "OPEN"]
        ELSE counted

\* variant of OnFailure: the breaker opens only at the threshold itself
OnFailureExact(b, cfg, t) ==
    LET counted == [b EXCEPT !.failure_count = b.failure_count + 1,
                             !.last_failure_time = t]
    IN  IF counted.failure_count = cfg.circuit_failure_threshold
           /\ counted.state # "OPEN"
        THEN [counted EXCEPT !.state = "OPEN"]
        ELSE counted

\* variant of OnFailure: the count is written from a stale read of 0
OnFailureStaleCount(b, cfg, t) ==
    LET counted == [b EXCEPT !.failure_count = 1, !.last_failure_time = t]
    IN  IF counted.failure_count >= cfg.circuit_failure_threshold
           /\ counted.state # "OPEN"
        THEN [counted EXCEPT !.state = "OPEN"]
        ELSE counted

\* variant of OnFailure: the failure is counted and not stamped
OnFailureUnstamped(b, cfg, t) ==
    LET counted == [b EXCEPT !.failure_count = b.failure_count + 1]
    IN  IF counted.failure_count >= cfg.circuit_failure_threshold
           /\ counted.state # "OPEN"
        THEN [counted EXCEPT !.state = "OPEN"]
        ELSE counted

\* lines 109-119: the operation raised; t is current_time of line 80
OnFailure(b, cfg, t) ==
    LET counted == [b EXCEPT !.failure_count = b.failure_count + 1,
                             !.last_failure_time = t]
    IN  IF counted.failure_count >= cfg.circuit_failure_threshold
           /\ counted.state # "OPEN"
        THEN [counted EXCEPT !.state = "OPEN"]
        ELSE counted

-----------------------------------------------------------------------------
(* RetryManager *)

max_history == 1000

\* the RetryAttempt dataclass, lines 35-45, without its timestamp and duration
RetryAttempt(n, err, ok, delay, strategy, fatal) ==
    [ attempt_number |-> n, error |-> err, success |-> ok, backoff_delay |-> delay,
      strategy_used |-> strategy, non_retryable |-> fatal ]

NoAttempt == RetryAttempt(0, NoError, FALSE, 0, "", FALSE)

\* variant of LastN: the first n elements are the ones kept
FirstN(s, n) == IF Len(s) <= n THEN s ELSE SubSeq(s, 1, n)

\* the last n elements of a sequence: s[-n:] with n > 0
LastN(s, n) == IF Len(s) <= n THEN s ELSE SubSeq(s, Len(s) - n + 1, Len(s))

\* self.retry_history.append(a); self._cleanup_history()
Record(history, a) ==
    LET h == Append(history, a)
    IN  IF Len(h) > max_history THEN LastN(h, max_history) ELSE h

Running == [kind |-> "running", exception |-> NoError, cause |-> NoError]
Returned == [kind |-> "returned", exception |-> NoError, cause |-> NoError]
Raised(e, c) == [kind |-> "raised", exception |-> e, cause |-> c]

\* how long one invocation of the operation may take, and how long the caller
\* may wait between two invocations of execute_with_retry
FuncDurations == {TicksPerSecond}
IdleGaps == {4 * TicksPerSecond}

BreakerEnabled == circuit_breaker # NoBreaker

\* variant of LoopExhausted: the function ends without raising
LoopFallsThrough(cause) == Returned

\* variant of LoopExhausted: the last exception is not chained
LoopExhaustedNoCause(cause) == Raised("RetryExhaustedException", NoError)

\* lines 451-467: the loop is over without a result; RetryExhaustedException is
\* raised from the last exception, if there is one
LoopExhausted(cause) == Raised("RetryExhaustedException", cause)

\* variant of Begin: every invocation starts with a new breaker
BeginWithNewBreaker ==
    /\ pc \in {"idle", "done"}
    /\ invocations < MaxInvocations
    /\ invocations' = invocations + 1
    /\ circuit_breaker' = IF BreakerEnabled THEN NewBreaker ELSE NoBreaker
    /\ entry' = [history_len |-> Len(retry_history), breaker |-> circuit_breaker']
    /\ func_calls' = << >>
    /\ sleeps' = << >>
    /\ last_exception' = NoError
    /\ failed_attempt' = NoAttempt
    /\ IF config.max_attempts >= 1
       THEN /\ pc' = "attempt"
            /\ attempt' = 1
            /\ outcome' = Running
       ELSE /\ pc' = "done"
            /\ attempt' = 0
            /\ outcome' = LoopExhausted(NoError)
    /\ UNCHANGED << config, now, ticks, retry_history >>
    /\ UNCHANGED << cbVars, hcVars, xVars >>

\* lines 355-361: a new invocation starts; with max_attempts < 1 the loop body
\* never runs and lines 451-467 raise RetryExhaustedException without a cause
Begin ==
    /\ pc \in {"idle", "done"}
    /\ invocations < MaxInvocations
    /\ invocations' = invocations + 1
    /\ entry' = [history_len |-> Len(retry_history), breaker |-> circuit_breaker]
    /\ func_calls' = << >>
    /\ sleeps' = << >>
    /\ last_exception' = NoError
    /\ failed_attempt' = NoAttempt
    /\ IF config.max_attempts >= 1
       THEN /\ pc' = "attempt"
            /\ attempt' = 1
            /\ outcome' = Running
       ELSE /\ pc' = "done"
            /\ attempt' = 0
            /\ outcome' = LoopExhausted(NoError)
    /\ UNCHANGED << config, circuit_breaker, now, ticks, retry_history >>
    /\ UNCHANGED << cbVars, hcVars, xVars >>

\* variant of OnRetryable: the backoff is slept after the final attempt too
OnRetryableSleepsLast(e, jitter_value) ==
    /\ last_exception' = e
    /\ failed_attempt' =
           RetryAttempt(attempt, e, FALSE,
                        calculate_delay(config, attempt - 1, jitter_value),
                        "standard_retry", FALSE)
    /\ pc' = "backoff"
    /\ outcome' = outcome
    /\ retry_history' = retry_history

\* lines 394-425 and 451-463: a retryable exception e; jitter_value is the draw
\* of calculate_delay
OnRetryable(e, jitter_value) ==
    LET failed == RetryAttempt(attempt, e, FALSE, 0, "standard_retry", FALSE)
    IN  /\ last_exception' = e
        /\ IF attempt < config.max_attempts
           THEN /\ failed_attempt' =
                       [failed EXCEPT !.backoff_delay =
                            calculate_delay(config, attempt - 1, jitter_value)]
                /\ pc' = "backoff"
                /\ outcome' = outcome
                /\ retry_history' = retry_history
           ELSE /\ failed_attempt' = NoAttempt
                /\ retry_history' = Record(retry_history, failed)
                /\ pc' = "done"
                /\ outcome' = LoopExhausted(e)

\* variant of OnFatal: the exception is re-raised without being recorded
OnFatalUnrecorded(e) ==
    /\ pc' = "done"
    /\ outcome' = Raised(e, NoError)
    /\ UNCHANGED << retry_history, last_exception, failed_attempt >>

\* lines 427-449: any other exception e is recorded and re-raised
OnFatal(e) ==
    /\ retry_history' =
           Record(retry_history, RetryAttempt(attempt, e, FALSE, 0, "no_retry", TRUE))
    /\ pc' = "done"
    /\ outcome' = Raised(e, NoError)
    /\ UNCHANGED << last_exception, failed_attempt >>

\* variant of OnException: every exception is taken for a retryable one
OnExceptionAlwaysRetry(e, jitter_value) == OnRetryable(e, jitter_value)

\* the except clauses of lines 394 and 427, in their order
OnException(e, jitter_value) ==
    IF IsInstance(e, config.retry_on_exceptions)
    THEN OnRetryable(e, jitter_value)
    ELSE OnFatal(e)

\* lines 368-369 with 83-89: the breaker rejects the attempt, the operation is
\* not invoked
AttemptRejected ==
    /\ pc = "attempt"
    /\ BreakerEnabled
    /\ Rejects(circuit_breaker, config, now)
    /\ \E j \in JitterValues(config, attempt - 1) :
           OnException("CircuitOpenException", j)
    /\ UNCHANGED << config, circuit_breaker, now, ticks, attempt, func_calls, sleeps,
                    entry, invocations >>
    /\ UNCHANGED << cbVars, hcVars, xVars >>

\* lines 366-392: the operation is invoked and returns after d ticks
AttemptReturns ==
    /\ pc = "attempt"
    /\ BreakerEnabled => ~Rejects(circuit_breaker, config, now)
    /\ \E d \in FuncDurations : now' = now + d
    /\ circuit_breaker' =
           IF BreakerEnabled
           THEN OnSuccess(Admit(circuit_breaker, config, now))
           ELSE circuit_breaker
    /\ func_calls' = Append(func_calls, "ok")
    /\ retry_history' =
           Record(retry_history,
                  RetryAttempt(attempt, NoError, TRUE, 0, "standard_retry", FALSE))
    /\ pc' = "done"
    /\ outcome' = Returned
    /\ UNCHANGED << config, ticks, attempt, last_exception, failed_attempt, sleeps,
                    entry, invocations >>
    /\ UNCHANGED << cbVars, hcVars, xVars >>

\* lines 366-371 and the handlers: the operation is invoked and raises e after
\* d ticks
AttemptRaises ==
    /\ pc = "attempt"
    /\ BreakerEnabled => ~Rejects(circuit_breaker, config, now)
    /\ \E d \in FuncDurations : now' = now + d
    /\ \E e \in FuncErrors :
           /\ func_calls' = Append(func_calls, e)
           /\ \E j \in JitterValues(config, attempt - 1) : OnException(e, j)
    /\ circuit_breaker' =
           IF BreakerEnabled
           THEN OnFailure(Admit(circuit_breaker, config, now), config, now)
           ELSE circuit_breaker
    /\ UNCHANGED << config, ticks, attempt, sleeps, entry, invocations >>
    /\ UNCHANGED << cbVars, hcVars, xVars >>

\* variant of Backoff: the failed attempt is not recorded
BackoffUnrecorded ==
    /\ pc = "backoff"
    /\ now' = now + failed_attempt.backoff_delay
    /\ sleeps' = Append(sleeps, failed_attempt.backoff_delay)
    /\ failed_attempt' = NoAttempt
    /\ attempt' = attempt + 1
    /\ pc' = "attempt"
    /\ UNCHANGED << config, circuit_breaker, ticks, last_exception, outcome,
                    func_calls, entry, invocations, retry_history >>
    /\ UNCHANGED << cbVars, hcVars, xVars >>

\* variant of Backoff: the loop variable advances by two
BackoffSkipsNumber ==
    /\ pc = "backoff"
    /\ now' = now + failed_attempt.backoff_delay
    /\ sleeps' = Append(sleeps, failed_attempt.backoff_delay)
    /\ retry_history' = Record(retry_history, failed_attempt)
    /\ failed_attempt' = NoAttempt
    /\ attempt' = attempt + 2
    /\ pc' = "attempt"
    /\ UNCHANGED << config, circuit_breaker, ticks, last_exception, outcome,
                    func_calls, entry, invocations >>
    /\ UNCHANGED << cbVars, hcVars, xVars >>

\* variant of Backoff: the delay is slept twice
BackoffSleepsTwice ==
    /\ pc = "backoff"
    /\ now' = now + 2 * failed_attempt.backoff_delay
    /\ sleeps' = Append(Append(sleeps, failed_attempt.backoff_delay),
                        failed_attempt.backoff_delay)
    /\ retry_history' = Record(retry_history, failed_attempt)
    /\ failed_attempt' = NoAttempt
    /\ attempt' = attempt + 1
    /\ pc' = "attempt"
    /\ UNCHANGED << config, circuit_breaker, ticks, last_exception, outcome,
                    func_calls, entry, invocations >>
    /\ UNCHANGED << cbVars, hcVars, xVars >>

\* lines 422-425: time.sleep(backoff_delay), then the failed attempt is recorded
\* and the loop goes on to the next attempt
Backoff ==
    /\ pc = "backoff"
    /\ now' = now + failed_attempt.backoff_delay
    /\ sleeps' = Append(sleeps, failed_attempt.backoff_delay)
    /\ retry_history' = Record(retry_history, failed_attempt)
    /\ failed_attempt' = NoAttempt
    /\ attempt' = attempt + 1
    /\ pc' = "attempt"
    /\ UNCHANGED << config, circuit_breaker, ticks, last_exception, outcome,
                    func_calls, entry, invocations >>
    /\ UNCHANGED << cbVars, hcVars, xVars >>

\* the caller lets time pass between two invocations
Idle ==
    /\ pc = "done"
    /\ pc' = "idle"
    /\ \E d \in IdleGaps : now' = now + d
    /\ UNCHANGED << config, circuit_breaker, ticks, retry_history, attempt,
                    last_exception, failed_attempt, outcome, func_calls, sleeps,
                    entry, invocations >>
    /\ UNCHANGED << cbVars, hcVars, xVars >>

-----------------------------------------------------------------------------
(* Initial states *)

Threads == {"t1", "t2"}

\* RetryManager.__init__, lines 311-333
InitRM ==
    /\ retry_history = << >>
    /\ pc = "idle"
    /\ attempt = 0
    /\ last_exception = NoError
    /\ failed_attempt = NoAttempt
    /\ outcome = Running
    /\ func_calls = << >>
    /\ sleeps = << >>
    /\ entry = [history_len |-> 0, breaker |-> circuit_breaker]
    /\ invocations = 0

\* no thread is inside CircuitBreaker.call
InitCB ==
    /\ lock_owner = NoThread
    /\ tpc = [t \in Threads |-> "out"]
    /\ current_time = [t \in Threads |-> NoTime]
    /\ tresult = [t \in Threads |-> "none"]
    /\ func_result = [t \in Threads |-> "none"]
    /\ cb_log = << >>
    /\ in_trial = 0

\* HealthChecker.__init__, lines 163-180; check_thread is the index of the
\* thread in loops, 0 for None; last_check_success, None or a boolean, is the
\* set of at most one boolean
NewHealthChecker ==
    [ is_running |-> FALSE, last_check_success |-> {},
      consecutive_failures |-> 0, consecutive_successes |-> 0,
      total_checks |-> 0, total_successes |-> 0, health_history |-> << >>,
      check_thread |-> 0 ]

InitHC ==
    /\ health_checker = NewHealthChecker
    /\ hlock = NoThread
    /\ loops = << >>
    /\ caller = "out"
    /\ probe_log = << >>

\* no get_... method has been called; a report holds the entries of the
\* dictionaries that lines 126-133, 291-301 and 494-514 build, those of the
\* methods not called being left at these values
NoReport ==
    [ surface |-> "none",
      total_attempts |-> 0, successful_attempts |-> 0, failed_attempts |-> 0,
      state |-> "", failure_count |-> 0, last_failure_time |-> NoTime,
      is_operational |-> FALSE,
      is_monitoring |-> FALSE, consecutive_failures |-> 0,
      consecutive_successes |-> 0, total_checks |-> 0, total_successes |-> 0,
      is_healthy |-> FALSE, records |-> << >> ]

\* calculate_delay has not been called
NoDelay == [attempt |-> -1, delay |-> 0]

\* nothing has been computed, recorded or read yet
InitX ==
    /\ returned_delay = NoDelay
    /\ recorded = 0
    /\ recorders = [t \in Threads |-> [pc |-> "out", sliced |-> << >>]]
    /\ observed = 0
    /\ has_health_checker = FALSE
    /\ cleanups = 0
    /\ report = NoReport

\* lines 323-329: the breaker exists only if the configuration enables it
Init ==
    /\ config \in Configs
    /\ circuit_breaker = IF config.circuit_breaker_enabled THEN NewBreaker ELSE NoBreaker
    /\ now = 0
    /\ ticks = 0
    /\ InitRM
    /\ InitCB
    /\ InitHC
    /\ InitX

Next ==
    \/ Begin
    \/ AttemptRejected
    \/ AttemptReturns
    \/ AttemptRaises
    \/ Backoff
    \/ Idle

Spec == Init /\ [][Next]_vars

-----------------------------------------------------------------------------
(* Observations on one invocation of execute_with_retry *)

\* the invocation has ended (and the caller may have waited since)
Finished == pc \in {"done", "idle"} /\ invocations > 0

\* the attempts this invocation has appended to the history
Appended == SubSeq(retry_history, entry.history_len + 1, Len(retry_history))

Retryable(e) == IsInstance(e, config.retry_on_exceptions)

Failures == { i \in 1..Len(func_calls) : func_calls[i] # "ok" }

\* what the operation did so far is what an operation does that raises
\* retryable faults and then, possibly, succeeds
OnlyRetryableFaults ==
    /\ \A i \in Failures : Retryable(func_calls[i])
    /\ \A i \in 1..Len(func_calls) : func_calls[i] = "ok" => i = Len(func_calls)

Succeeded == func_calls # << >> /\ func_calls[Len(func_calls)] = "ok"

\* m failed standard attempts numbered 1..m, then (if ok) a successful one
AttemptsInOrder(m, ok) ==
    /\ Len(Appended) = IF ok THEN m + 1 ELSE m
    /\ \A i \in 1..m :
           /\ Appended[i].attempt_number = i
           /\ ~Appended[i].success
           /\ ~Appended[i].non_retryable
           /\ Appended[i].error = func_calls[i]
    /\ ok => /\ Appended[m + 1].attempt_number = m + 1
             /\ Appended[m + 1].success
             /\ Appended[m + 1].error = NoError

\* the breaker cannot open before the operation has failed k more times
BreakerHoldsFor(k) ==
    \/ ~BreakerEnabled
    \/ /\ entry.breaker.state = "CLOSED"
       /\ entry.breaker.failure_count + k < config.circuit_failure_threshold

-----------------------------------------------------------------------------
(* C1 *)

-----------------------------------------------------------------------------
(* C2 *)

AllFailedRetryable == OnlyRetryableFaults /\ ~Succeeded

Exhausted == outcome.kind = "raised" /\ outcome.exception = "RetryExhaustedException"

-----------------------------------------------------------------------------
(* C3 *)

FatalFirst == func_calls # << >> /\ func_calls[1] # "ok" /\ ~Retryable(func_calls[1])

\* C3: when the first invocation of the operation raises a fault that
\* retry_on_exceptions does not match, the invocation re-raises that fault at
\* once: one attempt is recorded (non-retryable, not successful), nothing is
\* slept and the operation is not invoked again.
C3_FatalFirst ==
    FatalFirst
        => /\ Finished
           /\ outcome = Raised(func_calls[1], NoError)
           /\ Len(func_calls) = 1
           /\ sleeps = << >>
           /\ Len(Appended) = 1
           /\ Appended[1] = RetryAttempt(1, func_calls[1], FALSE, 0, "no_retry", TRUE)

\* a fatal fault on the first attempt, through the breaker
C3_Witness == FatalFirst /\ BreakerEnabled /\ Finished /\ Len(retry_history) >= 1

-----------------------------------------------------------------------------
(* C8 *)

-----------------------------------------------------------------------------
(* C9 *)

RejectedNow == pc = "attempt" /\ BreakerEnabled /\ Rejects(circuit_breaker, config, now)

RejectionIsFatal ==
    /\ pc' = "done"
    /\ outcome' = Raised("CircuitOpenException", NoError)
    /\ retry_history' =
           Append(retry_history,
                  RetryAttempt(attempt, "CircuitOpenException", FALSE, 0, "no_retry", TRUE))
    /\ sleeps' = sleeps
    /\ func_calls' = func_calls

\* C9 as stated: whenever the breaker rejects an attempt, the invocation ends
\* there: one non-retryable attempt is recorded, nothing is slept, no further
\* attempt is made and CircuitOpenException is raised.
C9_AsStated == [][RejectedNow => RejectionIsFatal]_vars

\* C9 amended: the same, provided retry_on_exceptions does not match
\* CircuitOpenException.
C9_RejectionFatal ==
    [][(RejectedNow /\ ~Retryable("CircuitOpenException")) => RejectionIsFatal]_vars

\* the breaker rejected the second or a later attempt and the invocation ended
C9_Witness ==
    /\ Finished
    /\ ~Retryable("CircuitOpenException")
    /\ outcome = Raised("CircuitOpenException", NoError)
    /\ Len(Appended) >= 2

-----------------------------------------------------------------------------
(* CircuitBreaker.call from several threads *)

\* time that may pass between two steps of the threads
Gaps == {TicksPerSecond, SecondsPerDay * TicksPerSecond}

InFunc == { t \in Threads : tpc[t] = "in_func" }

\* calls of the breaker started so far, and invocations of the operation
CallsStarted == Len(cb_log) + Cardinality({ t \in Threads : tpc[t] # "out" })
FuncInvocations ==
    Cardinality({ i \in 1..Len(cb_log) : cb_log[i] # "rejected" }) + Cardinality(InFunc)

\* variant of HolderDuringFunc: the lock is released before the operation runs
ReleasedDuringFunc(t) == NoThread

\* `with self.lock:` of line 79 spans the whole body of call, the invocation of
\* the operation at line 94 included: this is who holds the lock while the
\* operation of thread t runs
HolderDuringFunc(t) == t

\* variant of CallOutcome: the breaker raises its own exception in place of
\* the operation's
CallOutcomeReplaced(outcome_of_func) ==
    IF outcome_of_func = "ok" THEN "ok" ELSE "CircuitOpenException"

\* lines 94, 107 and 121: call returns the result of the operation, and its
\* bare `raise` re-raises the exception the operation raised
CallOutcome(outcome_of_func) == outcome_of_func

\* a thread calls call() and arrives at line 79
CallStart(t) ==
    /\ tpc[t] = "out"
    /\ CallsStarted < MaxCalls
    /\ tpc' = [tpc EXCEPT ![t] = "at_lock"]
    /\ UNCHANGED << config, circuit_breaker, now, ticks, lock_owner, current_time,
                    tresult, func_result, cb_log, in_trial >>
    /\ UNCHANGED << rmVars, hcVars, xVars >>

\* variant of CallRejected: the rejection restarts the recovery window
CallRejectedPostpones(t) ==
    /\ tpc[t] = "at_lock"
    /\ lock_owner = NoThread
    /\ Rejects(circuit_breaker, config, now)
    /\ circuit_breaker' = [circuit_breaker EXCEPT !.last_failure_time = now]
    /\ tpc' = [tpc EXCEPT ![t] = "out"]
    /\ tresult' = [tresult EXCEPT ![t] = "CircuitOpenException"]
    /\ cb_log' = Append(cb_log, "rejected")
    /\ UNCHANGED << config, now, ticks, lock_owner, current_time, func_result, in_trial >>
    /\ UNCHANGED << rmVars, hcVars, xVars >>

\* lines 79-89: the thread takes the lock and the breaker rejects the call
CallRejected(t) ==
    /\ tpc[t] = "at_lock"
    /\ lock_owner = NoThread
    /\ Rejects(circuit_breaker, config, now)
    /\ tpc' = [tpc EXCEPT ![t] = "out"]
    /\ tresult' = [tresult EXCEPT ![t] = "CircuitOpenException"]
    /\ cb_log' = Append(cb_log, "rejected")
    /\ UNCHANGED << config, circuit_breaker, now, ticks, lock_owner, current_time,
                    func_result, in_trial >>
    /\ UNCHANGED << rmVars, hcVars, xVars >>

\* lines 79-94: the thread takes the lock, the call is let through and the
\* operation starts
CallAdmitted(t) ==
    /\ tpc[t] = "at_lock"
    /\ lock_owner = NoThread
    /\ ~Rejects(circuit_breaker, config, now)
    /\ circuit_breaker' = Admit(circuit_breaker, config, now)
    /\ in_trial' = IF circuit_breaker'.state = "HALF_OPEN" THEN in_trial + 1 ELSE 0
    /\ lock_owner' = HolderDuringFunc(t)
    /\ tpc' = [tpc EXCEPT ![t] = "in_func"]
    /\ current_time' = [current_time EXCEPT ![t] = now]
    /\ UNCHANGED << config, now, ticks, tresult, func_result, cb_log >>
    /\ UNCHANGED << rmVars, hcVars, xVars >>

\* lines 94-107: the operation returns
FuncReturns(t) ==
    /\ tpc[t] = "in_func"
    /\ circuit_breaker' = OnSuccess(circuit_breaker)
    /\ in_trial' = IF circuit_breaker'.state = "HALF_OPEN" THEN in_trial ELSE 0
    /\ lock_owner' = NoThread
    /\ tpc' = [tpc EXCEPT ![t] = "out"]
    /\ func_result' = [func_result EXCEPT ![t] = "ok"]
    /\ tresult' = [tresult EXCEPT ![t] = CallOutcome("ok")]
    /\ cb_log' = Append(cb_log, "ok")
    /\ current_time' = [current_time EXCEPT ![t] = NoTime]
    /\ UNCHANGED << config, now, ticks >>
    /\ UNCHANGED << rmVars, hcVars, xVars >>

\* lines 94 and 109-121: the operation raises
FuncRaises(t) ==
    /\ tpc[t] = "in_func"
    /\ circuit_breaker' = OnFailure(circuit_breaker, config, current_time[t])
    /\ in_trial' = IF circuit_breaker'.state = "HALF_OPEN" THEN in_trial ELSE 0
    /\ lock_owner' = NoThread
    /\ tpc' = [tpc EXCEPT ![t] = "out"]
    /\ \E e \in FuncErrors : /\ func_result' = [func_result EXCEPT ![t] = e]
                            /\ tresult' = [tresult EXCEPT ![t] = CallOutcome(e)]
    /\ cb_log' = Append(cb_log, "fail")
    /\ current_time' = [current_time EXCEPT ![t] = NoTime]
    /\ UNCHANGED << config, now, ticks >>
    /\ UNCHANGED << rmVars, hcVars, xVars >>

\* time passes, also while an operation runs
Tick ==
    /\ ticks < MaxTicks
    /\ ticks' = ticks + 1
    /\ \E d \in Gaps : now' = now + d
    /\ UNCHANGED << config, circuit_breaker >>
    /\ UNCHANGED << rmVars, cbVars, hcVars, xVars >>

InitBreaker ==
    /\ config \in { c \in Configs : /\ c.circuit_breaker_enabled
                                    /\ c.max_attempts = MaxAttempts
                                    /\ c.retry_on_exceptions = {"ConnectionError"} }
    /\ circuit_breaker = NewBreaker
    /\ now = 0
    /\ ticks = 0
    /\ InitRM
    /\ InitCB
    /\ InitHC
    /\ InitX

NextCB ==
    \/ \E t \in Threads : CallStart(t)
    \/ \E t \in Threads : CallRejected(t)
    \/ \E t \in Threads : CallAdmitted(t)
    \/ \E t \in Threads : FuncReturns(t)
    \/ \E t \in Threads : FuncRaises(t)
    \/ Tick

SpecCB == InitBreaker /\ [][NextCB]_vars

-----------------------------------------------------------------------------
(* Observations on the breaker *)

\* admitted calls that failed since the last admitted call that succeeded
RECURSIVE ConsecutiveFailures(_)
ConsecutiveFailures(log) ==
    IF log = << >> THEN 0
    ELSE LET last == log[Len(log)]
             rest == SubSeq(log, 1, Len(log) - 1)
         IN  IF last = "ok" THEN 0
             ELSE IF last = "fail" THEN ConsecutiveFailures(rest) + 1
             ELSE ConsecutiveFailures(rest)

\* ticks since the last failure, whole days included
TrueElapsed == now - circuit_breaker.last_failure_time

RecoveryTicks == config.circuit_recovery_timeout * TicksPerSecond

\* thread t, waiting at the lock, gets its answer from the gate in this step
PassesGate(t) == tpc[t] = "at_lock" /\ tpc'[t] # "at_lock"

\* thread t's operation ends in this step
Ends(t) == tpc[t] = "in_func" /\ tpc'[t] = "out"

-----------------------------------------------------------------------------
(* C4 *)

\* C4: starting CLOSED with failure_count 0, the breaker counts the consecutive
\* failing calls and is OPEN once there are failure_threshold of them and not
\* before; a call made while it is OPEN and less than recovery_timeout after
\* the last failure raises CircuitOpenException, the operation is not invoked
\* and the breaker is left as it was.
C4_OpensAtThreshold ==
    /\ [](/\ circuit_breaker.failure_count = ConsecutiveFailures(cb_log)
          /\ circuit_breaker.state = "CLOSED"
                <=> ConsecutiveFailures(cb_log) < config.circuit_failure_threshold)
    /\ [][\A t \in Threads :
            (/\ PassesGate(t)
             /\ circuit_breaker.state = "OPEN"
             /\ TrueElapsed < RecoveryTicks)
                => /\ tpc'[t] = "out"
                   /\ tresult'[t] = "CircuitOpenException"
                   /\ FuncInvocations' = FuncInvocations
                   /\ circuit_breaker' = circuit_breaker]_vars

\* the second of two failures opened the breaker and the next call was rejected
C4_Witness ==
    /\ config.circuit_failure_threshold = 2
    /\ cb_log = << "fail", "fail", "rejected" >>
    /\ circuit_breaker.state = "OPEN"
    /\ FuncInvocations = 2

-----------------------------------------------------------------------------
(* C5 *)

\* C5: a call on an OPEN breaker is let through, as the HALF_OPEN trial, when
\* the time since the last failure is at least recovery_timeout, however long
\* it is, and is rejected exactly when it is shorter.
C5_RecoveryAfterTimeout ==
    [][\A t \in Threads :
        (PassesGate(t) /\ circuit_breaker.state = "OPEN")
            => IF TrueElapsed >= RecoveryTicks
               THEN /\ tpc'[t] = "in_func"
                    /\ circuit_breaker'.state = "HALF_OPEN"
               ELSE /\ tpc'[t] = "out"
                    /\ tresult'[t] = "CircuitOpenException"]_vars

-----------------------------------------------------------------------------
(* C6 *)

\* C6: the call that runs while the breaker is HALF_OPEN ends that state: a
\* return leaves the breaker CLOSED with failure_count 0 and no
\* last_failure_time, an exception leaves it OPEN.
C6_TrialDecides ==
    [][\A t \in Threads :
        (Ends(t) /\ circuit_breaker.state = "HALF_OPEN")
            => IF tresult'[t] = "ok"
               THEN circuit_breaker' = NewBreaker
               ELSE /\ circuit_breaker'.state = "OPEN"
                    /\ circuit_breaker'.failure_count = circuit_breaker.failure_count + 1
                    /\ circuit_breaker'.last_failure_time = current_time[t]]_vars

\* a trial has failed: only then does failure_count exceed the threshold
C6_Witness ==
    /\ circuit_breaker.state = "OPEN"
    /\ circuit_breaker.failure_count > config.circuit_failure_threshold

-----------------------------------------------------------------------------
(* C7 *)

\* C7: of several threads calling an OPEN breaker whose recovery timeout has
\* elapsed, one is admitted as the HALF_OPEN trial; while the state is
\* HALF_OPEN exactly one operation is running and no second one is invoked.
C7_SingleTrial ==
    circuit_breaker.state = "HALF_OPEN"
        => /\ Cardinality(InFunc) = 1
           /\ in_trial = 1

\* the trial of one thread runs while the other thread waits at the lock
C7_Witness ==
    /\ circuit_breaker.state = "HALF_OPEN"
    /\ \E t, u \in Threads : tpc[t] = "in_func" /\ tpc[u] = "at_lock"

-----------------------------------------------------------------------------
(* HealthChecker *)

hc_max_history == 100

\* what requests.get of line 230 can do: answer 200, answer another status,
\* or raise
ProbeOutcomes == {"200", "503", "ConnectionError"}

\* variant of ProbeSuccess: any response of the server counts as a success
ProbeSuccessAnyResponse(o) == o # "ConnectionError"

\* line 236 and the handler of lines 244-247: only a response with status 200
\* is a success
ProbeSuccess(o) == o = "200"

\* lines 241 and 246: error_details
ProbeError(o) == IF o = "200" THEN NoError ELSE o

\* variant of RecordCheck: a failure does not reset consecutive_successes
RecordCheckNoReset(hc, success, error_details) ==
    LET failures == IF success THEN 0 ELSE hc.consecutive_failures + 1
        successes == IF success THEN hc.consecutive_successes + 1
                     ELSE hc.consecutive_successes
        health_record == [ success |-> success, error |-> error_details,
                           consecutive_failures |-> failures,
                           consecutive_successes |-> successes ]
    IN  [ hc EXCEPT !.last_check_success = {success},
                    !.total_checks = hc.total_checks + 1,
                    !.total_successes = IF success THEN hc.total_successes + 1
                                        ELSE hc.total_successes,
                    !.consecutive_failures = failures,
                    !.consecutive_successes = successes,
                    !.health_history = Append(hc.health_history, health_record) ]

\* lines 251-278: the statistics and the history after a probe, under the lock
RecordCheck(hc, success, error_details) ==
    LET failures == IF success THEN 0 ELSE hc.consecutive_failures + 1
        successes == IF success THEN hc.consecutive_successes + 1 ELSE 0
        health_record == [ success |-> success, error |-> error_details,
                           consecutive_failures |-> failures,
                           consecutive_successes |-> successes ]
        history == Append(hc.health_history, health_record)
    IN  [ hc EXCEPT !.last_check_success = {success},
                    !.total_checks = hc.total_checks + 1,
                    !.total_successes = IF success THEN hc.total_successes + 1
                                        ELSE hc.total_successes,
                    !.consecutive_failures = failures,
                    !.consecutive_successes = successes,
                    !.health_history = IF Len(history) > hc_max_history
                                       THEN LastN(history, hc_max_history)
                                       ELSE history ]

LoopIds == 1..Len(loops)

\* probes made or about to be made
ProbesStarted ==
    Len(probe_log) + Cardinality({ i \in LoopIds : loops[i].pc \in {"probe", "record"} })

\* lines 184-195: start_monitoring
StartMonitoring ==
    /\ caller = "out"
    /\ hlock = NoThread
    /\ IF health_checker.is_running
       THEN UNCHANGED << health_checker, loops >>
       ELSE /\ Len(loops) < MaxLoops
            /\ loops' = Append(loops, [pc |-> "test", outcome |-> "None",
                                       success |-> FALSE])
            /\ health_checker' = [health_checker EXCEPT !.is_running = TRUE,
                                                        !.check_thread = Len(loops) + 1]
    /\ UNCHANGED << hlock, caller, probe_log >>
    /\ UNCHANGED << config, circuit_breaker, now, ticks >>
    /\ UNCHANGED << rmVars, cbVars, xVars >>

\* lines 197-205: stop_monitoring clears the flag and, with the lock held,
\* waits in join(timeout=5)
StopMonitoring ==
    /\ caller = "out"
    /\ hlock = NoThread
    /\ health_checker.is_running
    /\ health_checker' = [health_checker EXCEPT !.is_running = FALSE]
    /\ hlock' = "caller"
    /\ caller' = "join"
    /\ UNCHANGED << loops, probe_log >>
    /\ UNCHANGED << config, circuit_breaker, now, ticks >>
    /\ UNCHANGED << rmVars, cbVars, xVars >>

\* lines 205-207: join returns, the thread having ended or the 5 s being over,
\* and the lock is released
JoinReturns ==
    /\ caller = "join"
    /\ caller' = "out"
    /\ hlock' = NoThread
    /\ UNCHANGED << health_checker, loops, probe_log >>
    /\ UNCHANGED << config, circuit_breaker, now, ticks >>
    /\ UNCHANGED << rmVars, cbVars, xVars >>

\* variant of LoopTest: the loop does not look at the flag
LoopTestIgnoresFlag(i) ==
    /\ loops[i].pc = "test"
    /\ ProbesStarted < MaxChecks
    /\ loops' = [loops EXCEPT ![i].pc = "probe"]
    /\ UNCHANGED << health_checker, hlock, caller, probe_log >>
    /\ UNCHANGED << config, circuit_breaker, now, ticks >>
    /\ UNCHANGED << rmVars, cbVars, xVars >>

\* line 213: the loop tests the flag; a behaviour holds MaxChecks probes, so a
\* loop that would start one more waits here
LoopTest(i) ==
    /\ loops[i].pc = "test"
    /\ health_checker.is_running => ProbesStarted < MaxChecks
    /\ loops' = [loops EXCEPT ![i].pc =
                     IF health_checker.is_running THEN "probe" ELSE "exited"]
    /\ UNCHANGED << health_checker, hlock, caller, probe_log >>
    /\ UNCHANGED << config, circuit_breaker, now, ticks >>
    /\ UNCHANGED << rmVars, cbVars, xVars >>

\* lines 224-248: the probe itself, outside the lock
LoopProbe(i) ==
    /\ loops[i].pc = "probe"
    /\ \E o \in ProbeOutcomes :
           loops' = [loops EXCEPT ![i] = [pc |-> "record", outcome |-> o,
                                          success |-> ProbeSuccess(o)]]
    /\ UNCHANGED << health_checker, hlock, caller, probe_log >>
    /\ UNCHANGED << config, circuit_breaker, now, ticks >>
    /\ UNCHANGED << rmVars, cbVars, xVars >>

\* lines 250-280: the result is recorded under the lock
LoopRecord(i) ==
    /\ loops[i].pc = "record"
    /\ hlock = NoThread
    /\ health_checker' = RecordCheck(health_checker, loops[i].success,
                                     ProbeError(loops[i].outcome))
    /\ probe_log' = Append(probe_log, loops[i].success)
    /\ loops' = [loops EXCEPT ![i].pc = "sleep"]
    /\ UNCHANGED << hlock, caller >>
    /\ UNCHANGED << config, circuit_breaker, now, ticks >>
    /\ UNCHANGED << rmVars, cbVars, xVars >>

\* line 216: time.sleep(self.check_interval) is over; what
\* perform_health_check returned at line 215 was not kept
LoopWakes(i) ==
    /\ loops[i].pc = "sleep"
    /\ loops' = [loops EXCEPT ![i] = [pc |-> "test", outcome |-> "None",
                                      success |-> FALSE]]
    /\ UNCHANGED << health_checker, hlock, caller, probe_log >>
    /\ UNCHANGED << config, circuit_breaker, now, ticks >>
    /\ UNCHANGED << rmVars, cbVars, xVars >>

InitHealth ==
    /\ config \in { c \in Configs : /\ c.circuit_breaker_enabled
                                    /\ c.circuit_failure_threshold = 1
                                    /\ c.max_attempts = MaxAttempts
                                    /\ c.retry_on_exceptions = {"ConnectionError"} }
    /\ circuit_breaker = NewBreaker
    /\ now = 0
    /\ ticks = 0
    /\ InitRM
    /\ InitCB
    /\ InitHC
    /\ InitX

NextHC ==
    \/ StartMonitoring
    \/ StopMonitoring
    \/ JoinReturns
    \/ \E i \in LoopIds : LoopTest(i)
    \/ \E i \in LoopIds : LoopProbe(i)
    \/ \E i \in LoopIds : LoopRecord(i)
    \/ \E i \in LoopIds : LoopWakes(i)

SpecHC == InitHealth /\ [][NextHC]_vars

-----------------------------------------------------------------------------
(* C10 *)

\* the number of probes at the end of the log whose result is r
RECURSIVE Trailing(_, _)
Trailing(log, r) ==
    IF log = << >> \/ log[Len(log)] # r THEN 0
    ELSE Trailing(SubSeq(log, 1, Len(log) - 1), r) + 1

\* C10: after N failing probes in a row consecutive_failures is N and
\* consecutive_successes is 0; a successful probe resets consecutive_failures
\* to 0 (and counts in consecutive_successes); the two are never both non-zero.
C10_ConsecutiveCounters ==
    /\ health_checker.consecutive_failures = Trailing(probe_log, FALSE)
    /\ health_checker.consecutive_successes = Trailing(probe_log, TRUE)
    /\ health_checker.consecutive_failures = 0 \/ health_checker.consecutive_successes = 0

\* two failures, a success that reset the count, and a failure again
C10_Witness ==
    /\ probe_log = << FALSE, FALSE, TRUE, FALSE >>
    /\ health_checker.consecutive_failures = 1

-----------------------------------------------------------------------------
(* SpecHistory: one thread fills both histories past their capacity *)

\* the n-th attempt of an invocation whose operation keeps failing, as line 404
\* builds it (the delay has reached max_delay)
FailedAttempt(n) ==
    RetryAttempt(n, "ConnectionError", FALSE, config.max_delay, "standard_retry", FALSE)

\* lines 424-425: the failed attempt is appended and the history trimmed
RecordAttempt ==
    /\ recorded < max_history + MaxOver
    /\ recorded' = recorded + 1
    /\ retry_history' = Record(retry_history, FailedAttempt(recorded + 1))
    /\ UNCHANGED << pc, attempt, last_exception, failed_attempt, outcome, func_calls,
                    sleeps, entry, invocations >>
    /\ UNCHANGED << config, circuit_breaker, now, ticks, returned_delay, recorders, observed,
                    has_health_checker, cleanups, report >>
    /\ UNCHANGED << cbVars, hcVars >>

\* lines 222-280: perform_health_check, called directly, finds the service down
RecordProbe ==
    /\ health_checker.total_checks < hc_max_history + MaxOver
    /\ health_checker' = RecordCheck(health_checker, FALSE, ProbeError("503"))
    /\ probe_log' = Append(probe_log, FALSE)
    /\ UNCHANGED << hlock, loops, caller >>
    /\ UNCHANGED << config, circuit_breaker, now, ticks >>
    /\ UNCHANGED << rmVars, cbVars, xVars >>

\* a RetryManager whose max_attempts exceeds the capacity of its history
InitHistory ==
    /\ config \in { [c EXCEPT !.max_attempts = max_history + MaxOver] :
                        c \in { k \in Configs : /\ ~k.circuit_breaker_enabled
                                                /\ k.max_attempts = MaxAttempts
                                                /\ k.retry_on_exceptions = {"Exception"} } }
    /\ circuit_breaker = NoBreaker
    /\ now = 0
    /\ ticks = 0
    /\ InitRM
    /\ InitCB
    /\ InitHC
    /\ InitX

NextHistory ==
    \/ RecordAttempt
    \/ RecordProbe

SpecHistory == InitHistory /\ [][NextHistory]_vars

-----------------------------------------------------------------------------
(* C11 *)

\* the retry history is the last max_history attempts recorded, oldest first
RetryTail ==
    /\ Len(retry_history) = Min(recorded, max_history)
    /\ \A i \in 1..Len(retry_history) :
           retry_history[i] = FailedAttempt(recorded - Len(retry_history) + i)

\* the health history is the last 100 probes recorded, oldest first; the k-th
\* failing probe in a row is the one whose record counts k consecutive failures
HealthTail ==
    LET history == health_checker.health_history
        total == health_checker.total_checks
    IN  /\ Len(history) = Min(total, hc_max_history)
        /\ \A i \in 1..Len(history) :
               history[i].consecutive_failures = total - Len(history) + i

\* C11: however many attempts and probes have been recorded, the retry history
\* holds at most 1000 entries and the health history at most 100, and each
\* holds the most recently recorded entries in recording order: what an append
\* beyond the capacity evicts is the oldest entry.
C11_MostRecentKept ==
    /\ Len(retry_history) <= 1000
    /\ Len(health_checker.health_history) <= 100
    /\ RetryTail
    /\ HealthTail

\* both histories have been filled past their capacity and have evicted
C11_Witness ==
    /\ recorded > max_history
    /\ health_checker.total_checks > hc_max_history
    /\ retry_history[1].attempt_number = recorded - max_history + 1
    /\ Len(health_checker.health_history) = hc_max_history

-----------------------------------------------------------------------------
(* SpecRace: threads record attempts in one RetryManager, which has no lock *)

\* the history after max_history failed attempts, as SpecHistory reaches it
FullHistory == [ i \in 1..max_history |-> FailedAttempt(i) ]

\* line 424: list.append; the thread goes on to _cleanup_history
AppendAttempt(t) ==
    /\ recorders[t].pc = "out"
    /\ recorded < max_history + MaxOver
    /\ recorded' = recorded + 1
    /\ retry_history' = Append(retry_history, FailedAttempt(recorded + 1))
    /\ recorders' = [recorders EXCEPT ![t].pc = "cleanup"]
    /\ UNCHANGED << pc, attempt, last_exception, failed_attempt, outcome, func_calls,
                    sleeps, entry, invocations >>
    /\ UNCHANGED << config, circuit_breaker, now, ticks, returned_delay, observed,
                    has_health_checker, cleanups, report >>
    /\ UNCHANGED << cbVars, hcVars >>

\* line 471: the test of _cleanup_history
CleanupTest(t) ==
    /\ recorders[t].pc = "cleanup"
    /\ recorders' = [recorders EXCEPT ![t].pc =
                         IF Len(retry_history) > max_history THEN "slice" ELSE "out"]
    /\ UNCHANGED << recorded, observed, returned_delay, has_health_checker, cleanups, report >>
    /\ UNCHANGED << config, circuit_breaker, now, ticks >>
    /\ UNCHANGED << rmVars, cbVars, hcVars >>

\* line 472, right-hand side: the slice is a new list
CleanupSlice(t) ==
    /\ recorders[t].pc = "slice"
    /\ recorders' = [recorders EXCEPT ![t] =
                         [pc |-> "store", sliced |-> LastN(retry_history, max_history)]]
    /\ UNCHANGED << recorded, observed, returned_delay, has_health_checker, cleanups, report >>
    /\ UNCHANGED << config, circuit_breaker, now, ticks >>
    /\ UNCHANGED << rmVars, cbVars, hcVars >>

\* line 472, assignment: the new list replaces self.retry_history
CleanupStore(t) ==
    /\ recorders[t].pc = "store"
    /\ retry_history' = recorders[t].sliced
    /\ recorders' = [recorders EXCEPT ![t] = [pc |-> "out", sliced |-> << >>]]
    /\ UNCHANGED << pc, attempt, last_exception, failed_attempt, outcome, func_calls,
                    sleeps, entry, invocations >>
    /\ UNCHANGED << config, circuit_breaker, now, ticks, returned_delay, recorded,
                    observed, has_health_checker, cleanups, report >>
    /\ UNCHANGED << cbVars, hcVars >>

\* variant of get_retry_stats: only the failed attempts are counted
get_retry_stats_failed_only(r, history) ==
    LET failed == Cardinality({ i \in 1..Len(history) : ~history[i].success })
    IN  [ r EXCEPT !.total_attempts = failed,
                   !.successful_attempts = 0,
                   !.failed_attempts = failed ]

\* lines 474-514: the counts get_retry_stats puts into its dictionary r
get_retry_stats(r, history) ==
    IF history = << >>
    THEN [ r EXCEPT !.total_attempts = 0,
                    !.successful_attempts = 0,
                    !.failed_attempts = 0 ]
    ELSE LET total_attempts == Len(history)
             successful_attempts ==
                 Cardinality({ i \in 1..Len(history) : history[i].success })
         IN  [ r EXCEPT !.total_attempts = total_attempts,
                        !.successful_attempts = successful_attempts,
                        !.failed_attempts = total_attempts - successful_attempts ]

\* lines 474-514: get_retry_stats, called by another thread, counts the entries
GetRetryStats ==
    /\ observed' = Len(retry_history)
    /\ report' = get_retry_stats([NoReport EXCEPT !.surface = "get_retry_stats"],
                                 retry_history)
    /\ UNCHANGED << recorded, recorders, returned_delay, has_health_checker, cleanups >>
    /\ UNCHANGED << config, circuit_breaker, now, ticks >>
    /\ UNCHANGED << rmVars, cbVars, hcVars >>

InitRace ==
    /\ config \in { [c EXCEPT !.max_attempts = max_history + MaxOver] :
                        c \in { k \in Configs : /\ ~k.circuit_breaker_enabled
                                                /\ k.max_attempts = MaxAttempts
                                                /\ k.retry_on_exceptions = {"Exception"} } }
    /\ circuit_breaker = NoBreaker
    /\ now = 0
    /\ ticks = 0
    /\ retry_history = FullHistory
    /\ pc = "idle"
    /\ attempt = 0
    /\ last_exception = NoError
    /\ failed_attempt = NoAttempt
    /\ outcome = Running
    /\ func_calls = << >>
    /\ sleeps = << >>
    /\ entry = [history_len |-> 0, breaker |-> circuit_breaker]
    /\ invocations = 0
    /\ InitCB
    /\ InitHC
    /\ returned_delay = NoDelay
    /\ recorded = max_history
    /\ recorders = [t \in Threads |-> [pc |-> "out", sliced |-> << >>]]
    /\ observed = max_history
    /\ has_health_checker = FALSE
    /\ cleanups = 0
    /\ report = NoReport

NextRace ==
    \/ \E t \in Threads : AppendAttempt(t)
    \/ \E t \in Threads : CleanupTest(t)
    \/ \E t \in Threads : CleanupSlice(t)
    \/ \E t \in Threads : CleanupStore(t)
    \/ GetRetryStats

SpecRace == InitRace /\ [][NextRace]_vars

-----------------------------------------------------------------------------
(* C12 *)

\* every attempt recorded is in the history, unless max_history attempts have
\* been recorded after it
NoneLost ==
    LET n == Len(retry_history)
    IN  /\ n >= max_history
        /\ \A i \in 1..n : retry_history[i] = FailedAttempt(recorded - n + i)

\* C12: recording an attempt (append, then evict the oldest) is atomic for the
\* other threads that record and for readers: under every interleaving no
\* attempt is lost except the oldest ones, and get_retry_stats never counts
\* more than 1000 entries.
C12_AtomicRecording ==
    /\ observed <= 1000
    /\ (\A t \in Threads : recorders[t].pc = "out") => NoneLost

-----------------------------------------------------------------------------
(* C13 *)

\* max(0.1, min(base_delay * exponential_base^(k-1), max_delay)), in ticks
ScheduledDelay(k) ==
    LET raw == config.base_delay * Pow(config.exponential_base, k - 1)
        capped == IF raw < config.max_delay THEN raw ELSE config.max_delay
    IN  IF capped < 1 THEN 1 ELSE capped

\* the operation failed on calls 1 and 2 and succeeded on call 3, under
\* max_attempts = 3, base_delay = 1.0 and exponential_base = 2.0
FailFailSucceed ==
    /\ config.max_attempts = 3
    /\ config.base_delay = TicksPerSecond
    /\ config.exponential_base = 2
    /\ Len(func_calls) = 3
    /\ func_calls[1] # "ok"
    /\ func_calls[2] # "ok"
    /\ func_calls[3] = "ok"

\* C13: with jitter disabled the sleep after the k-th failed retryable attempt
\* (k < max_attempts) is max(0.1, min(base_delay * exponential_base^(k-1),
\* max_delay)) seconds.  With max_attempts = 3, base_delay = 1.0 and
\* exponential_base = 2.0, an operation that fails on calls 1 and 2 and
\* succeeds on call 3 makes the invocation sleep 1.0 s then 2.0 s and return,
\* and the success flags it records are false, false, true.
C13_BackoffSchedule ==
    /\ ~config.jitter =>
           \A k \in 1..Len(sleeps) : /\ k < config.max_attempts
                                     /\ sleeps[k] = ScheduledDelay(k)
    /\ (~config.jitter /\ FailFailSucceed) =>
           /\ sleeps = << TicksPerSecond, 2 * TicksPerSecond >>
           /\ outcome = Returned
           /\ Len(Appended) = 3
           /\ ~Appended[1].success
           /\ ~Appended[2].success
           /\ Appended[3].success

\* the scenario of the claim has run, both sleeps taken
C13_Witness ==
    /\ FailFailSucceed
    /\ Finished
    /\ Len(sleeps) = 2
    /\ Len(retry_history) >= 3

-----------------------------------------------------------------------------
(* SpecBackoff: ExponentialBackoff.calculate_delay on its own *)

\* delays in ticks: none, 0.1 s, 0.5 s, 1 s, 2 s, 3 s, 10 s
BaseDelays == {0, 1, 5, 10, 20}
MaxDelays == {0, 1, 10, 30, 100}
ExponentialBases == {1, 2, 3}

\* lines 137-142: an ExponentialBackoff of any base_delay, max_delay,
\* exponential_base and jitter (the other fields of the configuration do not
\* reach it)
BackoffConfigs ==
    [ max_attempts : {MaxAttempts},
      base_delay : BaseDelays,
      max_delay : MaxDelays,
      exponential_base : ExponentialBases,
      jitter : BOOLEAN,
      circuit_breaker_enabled : {FALSE},
      circuit_failure_threshold : {1},
      circuit_recovery_timeout : {3},
      retry_on_exceptions : {{"Exception"}} ]

\* lines 144-158: calculate_delay(n) is called and returns
CalculateDelay ==
    /\ \E n \in 0..MaxExponent :
           \E jitter_value \in JitterValues(config, n) :
               returned_delay' =
                   [attempt |-> n, delay |-> calculate_delay(config, n, jitter_value)]
    /\ UNCHANGED << recorded, recorders, observed, has_health_checker, cleanups, report >>
    /\ UNCHANGED << config, circuit_breaker, now, ticks >>
    /\ UNCHANGED << rmVars, cbVars, hcVars >>

InitBackoff ==
    /\ config \in BackoffConfigs
    /\ circuit_breaker = NoBreaker
    /\ now = 0
    /\ ticks = 0
    /\ InitRM
    /\ InitCB
    /\ InitHC
    /\ InitX

NextBackoff == CalculateDelay

SpecBackoff == InitBackoff /\ [][NextBackoff]_vars

-----------------------------------------------------------------------------
(* C14 *)

Called == returned_delay # NoDelay

\* 0.1 <= delay <= max_delay * 1.1, in ticks
InInterval == /\ 1 <= returned_delay.delay
              /\ 10 * returned_delay.delay <= 11 * config.max_delay

\* C14 as stated: whatever base_delay, max_delay, exponential_base and jitter
\* are, calculate_delay(n) lies between 0.1 s and max_delay * 1.1 for every
\* n >= 0.
C14_AsStated == Called => InInterval

\* C14 amended: the same, provided max_delay is at least 0.1 s; with a smaller
\* max_delay the result is the minimum of 0.1 s.
C14_DelayInterval ==
    Called => IF config.max_delay >= 1 THEN InInterval ELSE returned_delay.delay = 1

\* the upper end of the interval is reached: a capped delay with the largest
\* jitter
C14_Witness ==
    /\ Called
    /\ config.jitter
    /\ config.max_delay = 3 * TicksPerSecond
    /\ returned_delay.attempt >= 1
    /\ 10 * returned_delay.delay = 11 * config.max_delay

-----------------------------------------------------------------------------
(* C15 *)

\* thread t's call ends in this step
Leaves(t) == tpc[t] # "out" /\ tpc'[t] = "out"

-----------------------------------------------------------------------------
(* SpecHCFair: SpecHC with threads that keep running *)

\* a started thread is scheduled again and again, its probe ends (the request
\* has a timeout, line 231), its sleep ends, and join(timeout=5) returns
Fairness ==
    /\ WF_vars(JoinReturns)
    /\ \A i \in 1..MaxLoops :
           /\ WF_vars(i \in LoopIds /\ LoopTest(i))
           /\ WF_vars(i \in LoopIds /\ LoopProbe(i))
           /\ WF_vars(i \in LoopIds /\ LoopRecord(i))
           /\ WF_vars(i \in LoopIds /\ LoopWakes(i))

SpecHCFair == InitHealth /\ [][NextHC]_vars /\ Fairness

-----------------------------------------------------------------------------
(* Observations on the monitoring threads *)

Alive == { i \in LoopIds : loops[i].pc # "exited" }

Stopped == ~health_checker.is_running /\ loops # << >>

\* thread i moves from position p to another one in this step
LeavesPosition(i, p) == loops[i].pc = p /\ loops'[i].pc # p

\* thread i arrives at position p in this step
Reaches(i, p) == loops[i].pc # p /\ loops'[i].pc = p

-----------------------------------------------------------------------------
(* C16 *)

\* C16: whatever calls of start_monitoring and stop_monitoring have been made,
\* at most one monitoring thread is alive; start_monitoring on a running
\* checker starts no thread.
C16_SingleLoop ==
    /\ [](Cardinality(Alive) <= 1)
    /\ [][health_checker.is_running => Len(loops') = Len(loops)]_vars

-----------------------------------------------------------------------------
(* C17 *)

\* a thread that tests the flag after the stop exits, and a probe is started
\* only after a test that found the flag set: once the flag is cleared a
\* thread finishes the iteration it is in and starts no other
OneFurtherIteration ==
    \A i \in LoopIds :
        /\ (~health_checker.is_running /\ LeavesPosition(i, "test"))
               => loops'[i].pc = "exited"
        /\ Reaches(i, "probe") => (loops[i].pc = "test" /\ health_checker.is_running)

\* no thread starts its time.sleep(check_interval) once the flag is cleared: a
\* sleep that starts after the stop ends later than one check interval after it
NoSleepAfterStop ==
    \A i \in LoopIds : ~health_checker.is_running => ~Reaches(i, "sleep")

-----------------------------------------------------------------------------
(* C18 *)

\* C18: a probe that fails, by a transport error or by a response other than
\* 200, raises nothing: it is recorded as a failed check with its error,
\* perform_health_check returns false and the thread goes on to its sleep and
\* to the next test of the flag; a monitoring thread ends only when the flag
\* is cleared.
C18_FailedProbeRecorded ==
    [][\A i \in LoopIds :
        /\ (LeavesPosition(i, "record") /\ loops[i].outcome # "200") =>
               LET history == health_checker'.health_history
               IN  /\ Len(history) = Len(health_checker.health_history) + 1
                   /\ ~history[Len(history)].success
                   /\ history[Len(history)].error = loops[i].outcome
                   /\ health_checker'.last_check_success = {FALSE}
                   /\ loops'[i].success = FALSE
                   /\ loops'[i].pc = "sleep"
                   /\ health_checker'.is_running = health_checker.is_running
        /\ Reaches(i, "exited") => ~health_checker.is_running]_vars

\* one thread has recorded a 503 and then a transport error and is still
\* running
C18_Witness ==
    /\ Len(loops) = 1
    /\ health_checker.is_running
    /\ Len(health_checker.health_history) = 2
    /\ health_checker.health_history[1].error = "503"
    /\ health_checker.health_history[2].error = "ConnectionError"
    /\ loops[1].pc = "probe"

-----------------------------------------------------------------------------
(* HealthChecker.get_health_history *)

\* s[start:] of a Python list: a negative start counts from the end, and a
\* start outside the list is clipped to it
PySliceFrom(s, start) ==
    LET from == IF start < 0 THEN Max(Len(s) + start, 0) ELSE Min(start, Len(s))
    IN  SubSeq(s, from + 1, Len(s))

\* lines 303-306: self.health_history[-last_n:] if self.health_history else []
get_health_history(hc, last_n) ==
    IF hc.health_history # << >> THEN PySliceFrom(hc.health_history, 0 - last_n)
    ELSE << >>

-----------------------------------------------------------------------------
(* C19 *)

\* C19: for every n >= 0, get_health_history(n) returns the last
\* min(n, len(history)) records of the health history, in recording order.
C19_LastRecords ==
    \A n \in 0..MaxLastN :
        LET history == health_checker.health_history
            returned == get_health_history(health_checker, n)
        IN  /\ Len(returned) = Min(n, Len(history))
            /\ \A i \in 1..Len(returned) :
                   returned[i] = history[Len(history) - Len(returned) + i]

-----------------------------------------------------------------------------
(* C20 *)

\* C20: call does not hold the lock of the breaker while the operation runs:
\* while the operation of one thread is in progress the lock is free, so that
\* a call or a get_state_info of another thread need not wait for it.
C20_LockFreeDuringFunc == InFunc # {} => lock_owner = NoThread

-----------------------------------------------------------------------------
(* C21 *)

\* C21: whatever the interleaving of the threads that share the breaker,
\* failure_count is the number of invoked operations that failed since the
\* last one that succeeded (or since construction): every failure adds one,
\* every success resets it, and nothing else changes it.
C21_CountConsistent ==
    /\ [](circuit_breaker.failure_count = ConsecutiveFailures(cb_log))
    /\ [][\A t \in Threads :
            Ends(t) => circuit_breaker'.failure_count =
                           IF func_result'[t] = "ok" THEN 0
                           ELSE circuit_breaker.failure_count + 1]_vars
    /\ [][circuit_breaker'.failure_count # circuit_breaker.failure_count
              => \E t \in Threads : Ends(t)]_vars

\* the operations of both threads failed, one after the other, and both
\* failures are counted
C21_Witness ==
    /\ \A t \in Threads : tresult[t] \in FuncErrors
    /\ cb_log = << "fail", "fail" >>
    /\ circuit_breaker.failure_count = 2

-----------------------------------------------------------------------------
(* C22 *)

\* the state of the breaker changes in this step, from `from` to `to`
Transition(from, to) ==
    circuit_breaker.state = from /\ circuit_breaker'.state = to

\* an operation ends in this step, by returning (ok) or by raising
OperationEnds(ok) ==
    \E t \in Threads : Ends(t) /\ (func_result'[t] = "ok") = ok

\* C22: the state of the breaker changes in four ways only.  CLOSED -> OPEN
\* when an operation fails and failure_count has reached the threshold;
\* OPEN -> HALF_OPEN on a call made recovery_timeout or more after
\* last_failure_time; HALF_OPEN -> CLOSED when the trial returns; HALF_OPEN -> OPEN when
\* the trial raises.
C22_FourTransitions ==
    [][circuit_breaker'.state # circuit_breaker.state =>
        \/ /\ Transition("CLOSED", "OPEN")
           /\ OperationEnds(FALSE)
           /\ circuit_breaker'.failure_count >= config.circuit_failure_threshold
        \/ /\ Transition("OPEN", "HALF_OPEN")
           /\ \E t \in Threads : PassesGate(t)
           /\ circuit_breaker.last_failure_time # NoTime
           /\ TrueElapsed >= RecoveryTicks
        \/ /\ Transition("HALF_OPEN", "CLOSED")
           /\ OperationEnds(TRUE)
        \/ /\ Transition("HALF_OPEN", "OPEN")
           /\ OperationEnds(FALSE)]_vars

\* the breaker has opened, let a trial through and opened again when it failed
C22_Witness ==
    /\ cb_log = << "fail", "fail" >>
    /\ config.circuit_failure_threshold = 1
    /\ circuit_breaker.state = "OPEN"
    /\ circuit_breaker.failure_count = 2

-----------------------------------------------------------------------------
(* C23 *)

\* the invocation recorded max_attempts attempts, each failed with a fault that
\* retry_on_exceptions matches
AllAttemptsFailed ==
    /\ Len(Appended) = config.max_attempts
    /\ \A i \in 1..Len(Appended) :
           /\ Appended[i].attempt_number = i
           /\ ~Appended[i].success
           /\ ~Appended[i].non_retryable
           /\ Retryable(Appended[i].error)

\* C23 as stated: RetryExhaustedException is raised only after max_attempts
\* attempts of the invocation have failed with retryable faults, and its cause
\* is the fault of the last of them.
C23_AsStated ==
    Exhausted
        => /\ AllAttemptsFailed
           /\ Appended # << >>
           /\ outcome.cause = Appended[Len(Appended)].error

\* C23 amended: the same for max_attempts >= 1; with max_attempts < 1 the
\* exception is raised without any attempt and without a cause.
C23_ExhaustedAfterAll ==
    Exhausted
        => /\ Finished
           /\ AllAttemptsFailed
           /\ IF config.max_attempts >= 1
              THEN outcome.cause = Appended[Len(Appended)].error
              ELSE Appended = << >> /\ outcome.cause = NoError

\* three attempts failed, the last one by a ValueError that the configuration
\* retries, and the invocation was exhausted
C23_Witness ==
    /\ Exhausted
    /\ config.max_attempts = 3
    /\ Len(Appended) = 3
    /\ outcome.cause = "ValueError"

-----------------------------------------------------------------------------
(* SpecCleanup: RetryManager.setup_health_monitoring and RetryManager.cleanup *)

\* lines 340-351: setup_health_monitoring creates the HealthChecker and starts
\* its thread; a behaviour holds one set-up
SetupHealthMonitoring ==
    /\ ~has_health_checker
    /\ caller = "out"
    /\ has_health_checker' = TRUE
    /\ health_checker' = [NewHealthChecker EXCEPT !.is_running = TRUE,
                                                  !.check_thread = Len(loops) + 1]
    /\ loops' = Append(loops, [pc |-> "test", outcome |-> "None", success |-> FALSE])
    /\ UNCHANGED << hlock, caller, probe_log >>
    /\ UNCHANGED << returned_delay, recorded, recorders, observed, cleanups, report >>
    /\ UNCHANGED << config, circuit_breaker, now, ticks >>
    /\ UNCHANGED << rmVars, cbVars >>

\* variant of Cleanup: the flag of the HealthChecker is left set
CleanupLeavesRunning ==
    /\ caller = "out"
    /\ cleanups < MaxCleanups
    /\ cleanups' = cleanups + 1
    /\ IF has_health_checker
       THEN /\ hlock = NoThread
            /\ IF health_checker.is_running
               THEN hlock' = "caller" /\ caller' = "join"
               ELSE UNCHANGED << hlock, caller >>
       ELSE UNCHANGED << hlock, caller >>
    /\ UNCHANGED << health_checker, loops, probe_log >>
    /\ UNCHANGED << returned_delay, recorded, recorders, observed, has_health_checker, report >>
    /\ UNCHANGED << config, circuit_breaker, now, ticks >>
    /\ UNCHANGED << rmVars, cbVars >>

\* lines 538-543 and 197-205: cleanup calls stop_monitoring of the
\* HealthChecker if there is one; stop_monitoring returns at once when the
\* flag is clear, and else clears it and waits in join with the lock held
Cleanup ==
    /\ caller = "out"
    /\ cleanups < MaxCleanups
    /\ cleanups' = cleanups + 1
    /\ IF has_health_checker
       THEN /\ hlock = NoThread
            /\ IF health_checker.is_running
               THEN /\ health_checker' = [health_checker EXCEPT !.is_running = FALSE]
                    /\ hlock' = "caller"
                    /\ caller' = "join"
               ELSE UNCHANGED << health_checker, hlock, caller >>
       ELSE UNCHANGED << health_checker, hlock, caller >>
    /\ UNCHANGED << loops, probe_log >>
    /\ UNCHANGED << returned_delay, recorded, recorders, observed, has_health_checker, report >>
    /\ UNCHANGED << config, circuit_breaker, now, ticks >>
    /\ UNCHANGED << rmVars, cbVars >>

\* lines 323-334: the manager after construction, with its breaker
InitCleanup ==
    /\ config \in { c \in Configs : /\ c.circuit_breaker_enabled
                                    /\ c.circuit_failure_threshold = 1
                                    /\ c.max_attempts = MaxAttempts
                                    /\ c.retry_on_exceptions = {"ConnectionError"} }
    /\ circuit_breaker = NewBreaker
    /\ now = 0
    /\ ticks = 0
    /\ InitRM
    /\ InitCB
    /\ InitHC
    /\ InitX

NextCleanup ==
    \/ SetupHealthMonitoring
    \/ Cleanup
    \/ JoinReturns
    \/ \E i \in LoopIds : LoopTest(i)
    \/ \E i \in LoopIds : LoopProbe(i)
    \/ \E i \in LoopIds : LoopRecord(i)
    \/ \E i \in LoopIds : LoopWakes(i)
    \/ Begin
    \/ AttemptRejected
    \/ AttemptReturns
    \/ AttemptRaises
    \/ Backoff
    \/ Idle

SpecCleanup == InitCleanup /\ [][NextCleanup]_vars

-----------------------------------------------------------------------------
(* C24 *)

CleanupCalled == cleanups' = cleanups + 1

\* a HealthChecker is there and its flag is set
Monitoring == has_health_checker /\ health_checker.is_running

\* C24: cleanup() clears is_running of the HealthChecker the manager owns; a
\* call of it when the flag is clear already, or when no HealthChecker was set
\* up, changes nothing; neither the call nor the end of its join changes the
\* circuit breaker or the retry history.
C24_CleanupIdempotent ==
    /\ [][CleanupCalled =>
            /\ has_health_checker' = has_health_checker
            /\ has_health_checker => ~health_checker'.is_running
            /\ ~Monitoring => UNCHANGED hcVars
            /\ UNCHANGED << circuit_breaker, rmVars >>]_vars
    /\ [][(caller = "join" /\ caller' = "out") =>
            /\ ~health_checker'.is_running
            /\ UNCHANGED << health_checker, loops, probe_log, circuit_breaker, rmVars >>]_vars
    /\ [](caller = "join" => ~health_checker.is_running)

\* cleanup was called twice, once at least with the monitoring running, in a
\* manager that has recorded an attempt and whose breaker is OPEN
C24_Witness ==
    /\ cleanups = 2
    /\ caller = "out"
    /\ has_health_checker
    /\ ~health_checker.is_running
    /\ retry_history # << >>
    /\ circuit_breaker.state = "OPEN"

-----------------------------------------------------------------------------
(* C25 *)

\* the attempt of this step went through the breaker and the operation returned
AttemptSucceeds == pc = "attempt" /\ BreakerEnabled /\ outcome' = Returned

\* C25: every call through the breaker whose operation returns, whether the
\* breaker was CLOSED or on trial when the call began, leaves it CLOSED with
\* failure_count 0 and no last_failure_time; so it is after every invocation
\* of execute_with_retry that returned a result through the breaker.
C25_SuccessResets ==
    /\ [][AttemptSucceeds => circuit_breaker' = NewBreaker]_vars
    /\ []((Finished /\ outcome = Returned /\ BreakerEnabled)
            => circuit_breaker = NewBreaker)

\* an invocation that began with the breaker OPEN returned a result after a
\* failed attempt
C25_Witness ==
    /\ Finished
    /\ BreakerEnabled
    /\ outcome = Returned
    /\ entry.breaker.state = "OPEN"
    /\ Len(func_calls) >= 2

-----------------------------------------------------------------------------
(* C26 *)

\* C26: the backoff_delay of a recorded attempt is the delay that was slept
\* before that attempt: 0 for attempt 1, and for attempt k >= 2 the delay
\* computed and slept after attempt k-1.
C26_DelayBeforeAttempt ==
    \A i \in 1..Len(Appended) :
        LET k == Appended[i].attempt_number
        IN  Appended[i].backoff_delay = IF k = 1 THEN 0 ELSE sleeps[k - 1]

-----------------------------------------------------------------------------
(* C27 *)

\* the number of attempts a get_retry_stats of this moment reports (line 479)
total_attempts == Len(retry_history)

\* C27: a failed attempt that is followed by a backoff is in the retry history
\* before the sleep begins, so that during the sleep get_retry_stats counts it.
C27_RecordedBeforeSleep ==
    pc = "backoff" => /\ Len(Appended) = attempt
                      /\ total_attempts = entry.history_len + attempt

-----------------------------------------------------------------------------
(* C28 *)

\* the attempts of the invocation that have ended: those appended, and the
\* failed one whose backoff is being slept
AttemptsEnded == IF pc = "backoff" THEN Len(Appended) + 1 ELSE Len(Appended)

\* C28: the attempts of one invocation are numbered 1, 2, 3, ... without gaps
\* and are appended in that order; attempt k begins only when attempts 1..k-1
\* have ended and k-1 backoffs have been slept; only the last attempt can be a
\* success, and once the invocation has returned it invokes nothing, sleeps
\* nothing and records nothing more.
C28_AttemptsInSequence ==
    /\ [](/\ \A i \in 1..Len(Appended) :
                /\ Appended[i].attempt_number = i
                /\ Appended[i].success => i = Len(Appended) /\ outcome = Returned
          /\ pc \in {"attempt", "backoff"}
                => /\ AttemptsEnded = IF pc = "backoff" THEN attempt ELSE attempt - 1
                   /\ Len(sleeps) = attempt - 1
                   /\ Len(func_calls) <= AttemptsEnded
          /\ outcome = Returned
                => /\ Appended # << >>
                   /\ Appended[Len(Appended)].success
                   /\ Len(sleeps) = Len(Appended) - 1)
    /\ [][(outcome = Returned /\ invocations' = invocations)
            => UNCHANGED << func_calls, sleeps, retry_history, attempt >>]_vars

\* the third attempt succeeded after two failed ones and two backoffs
C28_Witness ==
    /\ Finished
    /\ outcome = Returned
    /\ Len(Appended) = 3
    /\ Len(sleeps) = 2
    /\ Len(func_calls) = 3

-----------------------------------------------------------------------------
(* C29 *)

\* C29: when the operation of an admitted call raises, last_failure_time
\* becomes the time at which it raised, whatever time the operation took, so
\* that recovery_timeout is counted from the failure.
C29_FailureTimeIsNow ==
    [][\A t \in Threads :
        (Ends(t) /\ func_result'[t] # "ok")
            => circuit_breaker'.last_failure_time = now]_vars

-----------------------------------------------------------------------------
(* C30 *)

\* the call of thread t is rejected in this step
RejectedStep(t) ==
    /\ PassesGate(t)
    /\ tpc'[t] = "out"
    /\ tresult'[t] = "CircuitOpenException"

\* the seconds, from now on, after which a call would find breaker b ready for
\* its HALF_OPEN trial
EligibleMoments(b) ==
    { s \in 0..(2 * config.circuit_recovery_timeout) :
        RecoveryElapsed(b, config, now + s * TicksPerSecond) }

\* C30: a call that the OPEN breaker rejects changes no field of the breaker:
\* it is not counted as a failure, the state stays OPEN and the moments at
\* which the breaker lets the trial through are the same as without the call.
C30_RejectionChangesNothing ==
    /\ [][\A t \in Threads :
            RejectedStep(t)
                => /\ circuit_breaker.state = "OPEN"
                   /\ circuit_breaker'.state = "OPEN"
                   /\ circuit_breaker'.failure_count = circuit_breaker.failure_count
                   /\ circuit_breaker'.last_failure_time = circuit_breaker.last_failure_time
                   /\ EligibleMoments(circuit_breaker') = EligibleMoments(circuit_breaker)]_vars
    /\ [](circuit_breaker.failure_count = ConsecutiveFailures(cb_log))

\* a call was rejected, and the next one, made after the recovery timeout
\* counted from the failure, was let through and closed the breaker
C30_Witness ==
    /\ cb_log = << "fail", "rejected", "ok" >>
    /\ circuit_breaker.state = "CLOSED"
    /\ now = config.circuit_recovery_timeout * TicksPerSecond

-----------------------------------------------------------------------------
(* C31 *)

\* C31: with failure_threshold >= 1, a breaker that is OPEN or HALF_OPEN has
\* counted at least failure_threshold failures, and a CLOSED breaker has
\* counted fewer.
C31_StateMatchesCount ==
    config.circuit_failure_threshold >= 1
        => /\ circuit_breaker.state \in {"OPEN", "HALF_OPEN"}
                => circuit_breaker.failure_count >= config.circuit_failure_threshold
           /\ circuit_breaker.state = "CLOSED"
                => circuit_breaker.failure_count < config.circuit_failure_threshold

\* the trial of a breaker that opened at its second failure is running
C31_Witness ==
    /\ config.circuit_failure_threshold = 2
    /\ circuit_breaker.state = "HALF_OPEN"
    /\ circuit_breaker.failure_count = 2
    /\ InFunc # {}

-----------------------------------------------------------------------------
(* C32 *)

\* the first attempt of an invocation is about to be made on a breaker that an
\* earlier invocation left OPEN, before the recovery timeout is over
FirstAttemptOnOpen ==
    /\ pc = "attempt"
    /\ attempt = 1
    /\ BreakerEnabled
    /\ circuit_breaker.state = "OPEN"
    /\ TrueElapsed < RecoveryTicks

\* the invocation ends at its first attempt with CircuitOpenException: one
\* attempt recorded, nothing slept, the operation not invoked
RejectedAtFirstAttempt ==
    /\ pc' = "done"
    /\ outcome' = Raised("CircuitOpenException", NoError)
    /\ Len(retry_history') = entry.history_len + 1
    /\ retry_history'[Len(retry_history')].attempt_number = 1
    /\ sleeps' = << >>
    /\ func_calls' = << >>
    /\ circuit_breaker' = circuit_breaker

\* between two invocations the breaker is left as it is
BreakerPersists == pc \in {"done", "idle"} => circuit_breaker' = circuit_breaker

-----------------------------------------------------------------------------
(* C33 *)

\* stop_monitoring has returned and this step does not start the monitoring
\* again
StaysStopped == Stopped /\ caller = "out" /\ ~health_checker'.is_running

\* C33: once stop_monitoring has returned, and as long as start_monitoring is
\* not called again, nothing is recorded: the history, the consecutive counters
\* and the totals of the HealthChecker stay as they are.
C33_FrozenAfterStop ==
    [][StaysStopped => /\ health_checker' = health_checker
                       /\ probe_log' = probe_log]_vars

-----------------------------------------------------------------------------
(* SpecFair: execute_with_retry when the operation and the sleeps end *)

\* every invocation of the operation returns or raises, a rejection by the
\* breaker is immediate, and time.sleep of line 422 returns
RetryFairness ==
    /\ WF_vars(AttemptRejected \/ AttemptReturns \/ AttemptRaises)
    /\ WF_vars(Backoff)

SpecFair == Init /\ [][Next]_vars /\ RetryFairness

-----------------------------------------------------------------------------
(* C34 *)

InProgress == pc \in {"attempt", "backoff"}

\* a sleep ends in this step
SleepEnds == Len(sleeps') = Len(sleeps) + 1

\* each sleep is followed by a further attempt within max_attempts, and the
\* invocation, once started, comes to its end
SleepsThenEnds ==
    /\ [][SleepEnds => /\ pc = "backoff"
                       /\ pc' = "attempt"
                       /\ attempt' = attempt + 1
                       /\ attempt' <= config.max_attempts]_vars
    /\ InProgress ~> (pc = "done")

\* C34 as stated: an invocation invokes the operation at most max_attempts
\* times and sleeps at most max_attempts - 1 times, each sleep is followed at
\* once by another attempt, and the invocation ends if every invocation of the
\* operation does.
C34_AsStated ==
    /\ [](/\ Len(func_calls) <= config.max_attempts
          /\ Len(sleeps) <= config.max_attempts - 1)
    /\ SleepsThenEnds

\* C34 amended: the same for max_attempts >= 1; with max_attempts < 1 the
\* operation is not invoked and nothing is slept.
C34_BoundedWork ==
    /\ [](/\ Len(func_calls) <= Max(config.max_attempts, 0)
          /\ Len(sleeps) <= Max(config.max_attempts - 1, 0))
    /\ SleepsThenEnds

\* an invocation has ended after max_attempts invocations of the operation and
\* max_attempts - 1 sleeps
C34_Witness ==
    /\ Finished
    /\ config.max_attempts = 3
    /\ Len(func_calls) = 3
    /\ Len(sleeps) = 2

-----------------------------------------------------------------------------
(* C35 *)

NoJitter == ~config.jitter /\ config.exponential_base >= 1

\* base_delay * exponential_base ** m has reached max_delay for some m <= n
CapReached(n) ==
    \E m \in 0..n :
        config.base_delay * Pow(config.exponential_base, m) >= config.max_delay

-----------------------------------------------------------------------------
(* C36 *)

\* C36: the breaker has a last_failure_time exactly when its failure_count is
\* not 0.
C36_TimeIffCount ==
    (circuit_breaker.last_failure_time = NoTime) <=> (circuit_breaker.failure_count = 0)

\* a failure has been counted and stamped, and a later success has cleared both
C36_Witness ==
    /\ cb_log = << "fail", "ok" >>
    /\ config.circuit_failure_threshold = 2
    /\ circuit_breaker.failure_count = 0
    /\ circuit_breaker.last_failure_time = NoTime

-----------------------------------------------------------------------------
(* SpecStatus: the methods that report the state *)

\* lines 123-133: get_state_info
get_state_info(r, b) ==
    [ r EXCEPT !.state = b.state,
               !.failure_count = b.failure_count,
               !.last_failure_time = b.last_failure_time,
               !.is_operational = b.state # "OPEN" ]

\* variant of get_health_status: three failures in a row still count as healthy
get_health_status_lenient(r, hc) ==
    [ r EXCEPT !.is_monitoring = hc.is_running,
               !.consecutive_failures = hc.consecutive_failures,
               !.consecutive_successes = hc.consecutive_successes,
               !.total_checks = hc.total_checks,
               !.total_successes = hc.total_successes,
               !.is_healthy = hc.consecutive_failures <= 3 ]

\* lines 282-301: get_health_status
get_health_status(r, hc) ==
    [ r EXCEPT !.is_monitoring = hc.is_running,
               !.consecutive_failures = hc.consecutive_failures,
               !.consecutive_successes = hc.consecutive_successes,
               !.total_checks = hc.total_checks,
               !.total_successes = hc.total_successes,
               !.is_healthy = hc.consecutive_failures < 3 ]

\* lines 516-536: get_system_status puts together the statistics, the state of
\* the breaker if there is one and the health status if there is a checker
get_system_status(r) ==
    LET stats == get_retry_stats(r, retry_history)
        with_breaker == IF BreakerEnabled THEN get_state_info(stats, circuit_breaker)
                        ELSE stats
    IN  IF has_health_checker THEN get_health_status(with_breaker, health_checker)
        ELSE with_breaker

\* a get_... method returns r and changes nothing
Reports(r) ==
    /\ report' = r
    /\ UNCHANGED << returned_delay, recorded, recorders, observed, has_health_checker,
                    cleanups >>
    /\ UNCHANGED << config, circuit_breaker, now, ticks >>
    /\ UNCHANGED << rmVars, cbVars, hcVars >>

\* lines 123-133, under the lock of the breaker
GetStateInfo ==
    /\ BreakerEnabled
    /\ Reports(get_state_info([NoReport EXCEPT !.surface = "get_state_info"],
                              circuit_breaker))

\* lines 282-301, under the lock of the HealthChecker
GetHealthStatus ==
    /\ has_health_checker
    /\ hlock = NoThread
    /\ Reports(get_health_status([NoReport EXCEPT !.surface = "get_health_status"],
                                 health_checker))

\* lines 303-306, under the lock of the HealthChecker
GetHealthHistory ==
    /\ has_health_checker
    /\ hlock = NoThread
    /\ \E last_n \in 0..MaxLastN :
           Reports([NoReport EXCEPT !.surface = "get_health_history",
                                    !.records = get_health_history(health_checker, last_n)])

\* lines 516-536
GetSystemStatus ==
    /\ has_health_checker => hlock = NoThread
    /\ Reports(get_system_status([NoReport EXCEPT !.surface = "get_system_status"]))

\* lines 213-216 with 222-280: one iteration of the monitoring loop, from the
\* test of the flag to the end of the sleep; only its recording (lines 251-278)
\* touches what other threads see
LoopIteration(i) ==
    /\ loops[i].pc = "test"
    /\ health_checker.is_running
    /\ hlock = NoThread
    /\ ProbesStarted < MaxChecks
    /\ \E o \in ProbeOutcomes :
           /\ health_checker' = RecordCheck(health_checker, ProbeSuccess(o), ProbeError(o))
           /\ probe_log' = Append(probe_log, ProbeSuccess(o))
    /\ UNCHANGED << hlock, loops, caller >>
    /\ UNCHANGED << config, circuit_breaker, now, ticks >>
    /\ UNCHANGED << rmVars, cbVars, xVars >>

\* the caller has taken the report
TakeReport ==
    /\ report # NoReport
    /\ Reports(NoReport)

\* no report is waiting to be taken
Quiet == report = NoReport

\* lines 311-338: the manager after construction, with or without a breaker,
\* for operations that are tried once (max_attempts = 1: no backoff) in
\* invocations that follow each other at once
InitStatus ==
    /\ config \in { c \in Configs : /\ c.circuit_failure_threshold = 1
                                    /\ c.max_attempts = 1
                                    /\ c.retry_on_exceptions = {"ConnectionError"} }
    /\ circuit_breaker = IF config.circuit_breaker_enabled THEN NewBreaker ELSE NoBreaker
    /\ now = 0
    /\ ticks = 0
    /\ InitRM
    /\ InitCB
    /\ InitHC
    /\ InitX

\* the methods are called at any moment; the manager and the monitoring move
\* on once the report has been taken
NextStatus ==
    \/ GetRetryStats
    \/ GetStateInfo
    \/ GetHealthStatus
    \/ GetHealthHistory
    \/ GetSystemStatus
    \/ TakeReport
    \/ Quiet /\ SetupHealthMonitoring
    \/ Quiet /\ \E i \in LoopIds : LoopIteration(i)
    \/ Quiet /\ Begin
    \/ Quiet /\ AttemptRejected
    \/ Quiet /\ AttemptReturns
    \/ Quiet /\ AttemptRaises

SpecStatus == InitStatus /\ [][NextStatus]_vars

-----------------------------------------------------------------------------
(* C37 *)

\* a get_... method returns in this step
ReadStep == report' # report /\ report' # NoReport

SuccessfulRecords == { i \in 1..Len(retry_history) : retry_history[i].success }

\* C37: get_retry_stats, get_system_status, get_state_info, get_health_status
\* and get_health_history change neither the retry history, nor the breaker,
\* nor the counters and the history of the HealthChecker; the statistics of
\* get_retry_stats (also inside get_system_status) satisfy total_attempts =
\* successful_attempts + failed_attempts = length of the retry history.
C37_ReadsChangeNothing ==
    /\ [][ReadStep => UNCHANGED << retry_history, circuit_breaker, health_checker,
                                   probe_log, loops, rmVars, cbVars >>]_vars
    /\ [][(ReadStep /\ report'.surface \in {"get_retry_stats", "get_system_status"})
            => /\ report'.total_attempts = Len(retry_history)
               /\ report'.successful_attempts = Cardinality(SuccessfulRecords)
               /\ report'.total_attempts =
                      report'.successful_attempts + report'.failed_attempts]_vars

\* get_system_status has reported one successful and one failed attempt, the
\* OPEN breaker and a health check
C37_Witness ==
    /\ report.surface = "get_system_status"
    /\ report.total_attempts = 2
    /\ report.successful_attempts = 1
    /\ report.failed_attempts = 1
    /\ report.state = "OPEN"
    /\ report.total_checks = 1
    /\ Len(retry_history) = 2

-----------------------------------------------------------------------------
(* C38 *)

\* the counters of the latest record of the history are the current ones
LatestRecordCurrent ==
    LET history == health_checker.health_history
    IN  history # << >>
            => /\ history[Len(history)].consecutive_failures
                      = health_checker.consecutive_failures
               /\ history[Len(history)].consecutive_successes
                      = health_checker.consecutive_successes

\* C38: total_successes <= total_checks, consecutive_successes <=
\* total_successes, consecutive_failures <= total_checks - total_successes, the
\* latest record of the history carries the current consecutive counters, and
\* get_health_status reports is_healthy exactly when consecutive_failures < 3.
C38_CountersConsistent ==
    /\ [](/\ health_checker.total_successes <= health_checker.total_checks
          /\ health_checker.consecutive_successes <= health_checker.total_successes
          /\ health_checker.consecutive_failures
                 <= health_checker.total_checks - health_checker.total_successes
          /\ LatestRecordCurrent)
    /\ [][(ReadStep /\ report'.surface = "get_health_status")
            => (report'.is_healthy <=> health_checker.consecutive_failures < 3)]_vars

\* after a success and three failures in a row get_health_status has reported
\* the service as not healthy
C38_Witness ==
    /\ report.surface = "get_health_status"
    /\ ~report.is_healthy
    /\ health_checker.consecutive_failures = 3
    /\ health_checker.total_checks = 4
    /\ health_checker.total_successes = 1

====
